---------------------------- MODULE Spec2Model ----------------------------
(***************************************************************************)
(* A model of gobkc/orm: the generic Query / Insert / Update / Delete      *)
(* entry points, the SQL synthesizer and the row marshaller.               *)
(*                                                                         *)
(* The repository holds the engine twice, once per placeholder dialect:    *)
(*   "dollar"  src/unnamed/part_000   numbered placeholders $1, $2, ...    *)
(*   "qmark"   src/pg.go              positional placeholders ?            *)
(* Definitions modelling src/unnamed/part_000 keep the source's names;     *)
(* those modelling the same function of src/pg.go carry the suffix _pg.    *)
(*                                                                         *)
(* Text is a sequence of one-character strings, so that the regular        *)
(* expressions, the case folding and the formatting of the source are      *)
(* computed character by character.                                        *)
(***************************************************************************)
EXTENDS Integers, Sequences, FiniteSets, TLC

(***************************************************************************)
(* Bounds of the model.                                                    *)
(***************************************************************************)
MaxSegs == 3
MaxArgs == 2
MaxRows == 2
MaxBatch == 2

(***************************************************************************)
(* Characters and text.                                                    *)
(***************************************************************************)
UpperChars == << "A","B","C","D","E","F","G","H","I","J","K","L","M",
                 "N","O","P","Q","R","S","T","U","V","W","X","Y","Z" >>

LowerChars == << "a","b","c","d","e","f","g","h","i","j","k","l","m",
                 "n","o","p","q","r","s","t","u","v","w","x","y","z" >>

DigitChars == << "0","1","2","3","4","5","6","7","8","9" >>

\* asc >= 65 && asc <= 90
IsUpper(c) == \E i \in 1..26 : UpperChars[i] = c

\* asc += 32
ToLower(c) == IF IsUpper(c)
              THEN LowerChars[CHOOSE i \in 1..26 : UpperChars[i] = c]
              ELSE c

\* [0-9]
IsDigit(c) == \E i \in 1..10 : DigitChars[i] = c

\* the text s from position i on
Drop(s, i) == SubSeq(s, i, Len(s))

\* (?i) comparison of the text at position i of s with the lower-case word w
FoldedAt(s, i, w) ==
    /\ i + Len(w) - 1 <= Len(s)
    /\ \A k \in 1..Len(w) : ToLower(s[i + k - 1]) = w[k]

\* exact comparison of the text at position i of s with w
TextAt(s, i, w) ==
    /\ i + Len(w) - 1 <= Len(s)
    /\ \A k \in 1..Len(w) : s[i + k - 1] = w[k]

RECURSIVE Concat(_)
Concat(parts) == IF parts = << >> THEN << >>
                 ELSE Head(parts) \o Concat(Tail(parts))

\* strings.Join
RECURSIVE Join(_, _)
Join(parts, sep) ==
    IF parts = << >> THEN << >>
    ELSE IF Len(parts) = 1 THEN parts[1]
    ELSE parts[1] \o sep \o Join(Tail(parts), sep)

\* fmt.Sprintf("%v", n) of an integer
RECURSIVE FormatNat(_)
FormatNat(n) == IF n < 10 THEN << DigitChars[n + 1] >>
                ELSE FormatNat(n \div 10) \o << DigitChars[(n % 10) + 1] >>

FormatInt(n) == IF n < 0 THEN << "-" >> \o FormatNat(0 - n) ELSE FormatNat(n)

\* fmt.Sprintf("%v", f) of a float64 with one decimal digit, f = w + t/10:
\* the shortest representation, so 2.0 prints as 2 and 1.5 as 1.5
FormatFloat(f) == IF f.t = 0 THEN FormatInt(f.w)
                  ELSE FormatInt(f.w) \o << "." >> \o << DigitChars[f.t + 1] >>

\* fmt.Sprintf("'%v'", s)
Quoted(s) == << "'" >> \o s \o << "'" >>

(***************************************************************************)
(* Name Resolver.                                                          *)
(***************************************************************************)
RECURSIVE toSnakeFrom(_, _)
toSnakeFrom(name, i) ==
    IF i > Len(name) THEN << >>
    ELSE (IF IsUpper(name[i])
          THEN (IF i > 1 THEN << "_" >> ELSE << >>) \o << ToLower(name[i]) >>
          ELSE << name[i] >>)
         \o toSnakeFrom(name, i + 1)

toSnake(name) == toSnakeFrom(name, 1)

(***************************************************************************)
(* "IN" placeholder expansion.                                             *)
(* An argument is a scalar [kind, items = <<v>>] or a sequence [kind |->   *)
(* "slice",                                                                *)
(* elem, items]; elem is the kind of element 0 as reflect reports it.  A   *)
(* value is [s, w, t]: the text s of a string, the integer w, or the       *)
(* float64 w + t/10.                                                       *)
(***************************************************************************)
StrVal(s) == [s |-> s, w |-> 0, t |-> 0]
IntVal(n) == [s |-> << >>, w |-> n, t |-> 0]
FloatVal(w, t) == [s |-> << >>, w |-> w, t |-> t]

IsSlice(arg) == arg.kind = "slice"

RECURSIVE FormatInts(_)
FormatInts(items) == IF items = << >> THEN << >>
                     ELSE << FormatInt(Head(items).w) >> \o FormatInts(Tail(items))

RECURSIVE FormatFloats(_)
FormatFloats(items) == IF items = << >> THEN << >>
                       ELSE << FormatFloat(Head(items)) >> \o FormatFloats(Tail(items))

\* the kinds convertSlice2StringFuncMap has an entry for
ConvertKinds == {"string", "int64", "int", "float64"}

\* the []string a sequence of string values holds
RECURSIVE Strings(_)
Strings(items) == IF items = << >> THEN << >>
                  ELSE << Head(items).s >> \o Strings(Tail(items))

\* part_000: every entry asserts the slice type of its own kind
convertSlice2StringFuncMap(arg) ==
    CASE arg.elem = "string"  -> [panic |-> FALSE,
                                  text |-> Quoted(Join(Strings(arg.items), <<"'", ",", "'">>))]
      [] arg.elem = "int64"   -> [panic |-> FALSE, text |-> Join(FormatInts(arg.items), <<",">>)]
      [] arg.elem = "int"     -> [panic |-> FALSE, text |-> Join(FormatInts(arg.items), <<",">>)]
      [] arg.elem = "float64" -> [panic |-> FALSE, text |-> Join(FormatFloats(arg.items), <<",">>)]

\* pg.go: the int and float64 entries assert meta.([]int64), a single-value
\* type assertion, which panics on a []int or []float64
convertSlice2StringFuncMap_pg(arg) ==
    CASE arg.elem = "string"  -> [panic |-> FALSE,
                                  text |-> Quoted(Join(Strings(arg.items), <<"'", ",", "'">>))]
      [] arg.elem = "int64"   -> [panic |-> FALSE, text |-> Join(FormatInts(arg.items), <<",">>)]
      [] arg.elem = "int"     -> [panic |-> TRUE, text |-> << >>]
      [] arg.elem = "float64" -> [panic |-> TRUE, text |-> << >>]

\* the first loop of parseSqlIn over args[i..]: the expansions of the
\* sequence arguments, the residual arguments, and whether a conversion
\* panicked (the loop then never completes)
RECURSIVE SplitArgs(_, _, _)
SplitArgs(args, i, dialect) ==
    IF i > Len(args) THEN [panic |-> FALSE, sliceArgs |-> << >>, newArgs |-> << >>]
    ELSE LET arg  == args[i]
             rest == SplitArgs(args, i + 1, dialect)
         IN IF IsSlice(arg)
            THEN IF Len(arg.items) > 0 /\ arg.elem \in ConvertKinds
                 THEN LET r == IF dialect = "dollar"
                               THEN convertSlice2StringFuncMap(arg)
                               ELSE convertSlice2StringFuncMap_pg(arg)
                      IN IF r.panic
                         THEN [panic |-> TRUE, sliceArgs |-> << >>, newArgs |-> << >>]
                         ELSE [rest EXCEPT !.sliceArgs = << r.text >> \o @]
                 ELSE rest
            ELSE [rest EXCEPT !.newArgs = << arg >> \o @]

\* " (IN|in|In|iN) " at position i of s
InKeywordAt(s, i) ==
    /\ i + 3 <= Len(s)
    /\ s[i] = " "
    /\ s[i + 1] \in {"I", "i"}
    /\ s[i + 2] \in {"N", "n"}
    /\ s[i + 3] = " "

\* the number of digits from position i of s on: [0-9]*, greedy
RECURSIVE DigitRun(_, _)
DigitRun(s, i) == IF i <= Len(s) /\ IsDigit(s[i]) THEN 1 + DigitRun(s, i + 1) ELSE 0

\* length of the match of " (IN|in|In|iN) \$[0-9]*" at position i, 0 if none
MatchLen(s, i) ==
    IF InKeywordAt(s, i) /\ i + 4 <= Len(s) /\ s[i + 4] = "$"
    THEN 5 + DigitRun(s, i + 5)
    ELSE 0

\* length of the match of " (IN|in|In|iN) \??" at position i, 0 if none
MatchLen_pg(s, i) ==
    IF InKeywordAt(s, i)
    THEN (IF i + 4 <= Len(s) /\ s[i + 4] = "?" THEN 5 ELSE 4)
    ELSE 0

\* the replacement function of part_000 for the match number sliceIdx + 1
Replacement(sliceArgs, sliceIdx) ==
    LET arg == IF sliceIdx < Len(sliceArgs) THEN sliceArgs[sliceIdx + 1] ELSE << >>
    IN IF arg = << >> THEN << " ", "I", "N", " " >>
       ELSE << " ", "I", "N", " ", "(" >> \o arg \o << ")" >>

\* the replacement function of pg.go
Replacement_pg(sliceArgs, sliceIdx) ==
    LET arg == IF sliceIdx < Len(sliceArgs) THEN sliceArgs[sliceIdx + 1] ELSE << >>
    IN << " ", "I", "N", " ", "(" >> \o arg \o << ")" >>

\* rep.ReplaceAllStringFunc: leftmost matches, not overlapping, each handed
\* to the replacement function, which counts them in sliceIdx
RECURSIVE ReplaceAll(_, _, _, _, _)
ReplaceAll(s, i, sliceArgs, sliceIdx, dialect) ==
    IF i > Len(s) THEN << >>
    ELSE LET n == IF dialect = "dollar" THEN MatchLen(s, i) ELSE MatchLen_pg(s, i)
         IN IF n > 0
            THEN (IF dialect = "dollar"
                  THEN Replacement(sliceArgs, sliceIdx)
                  ELSE Replacement_pg(sliceArgs, sliceIdx))
                 \o ReplaceAll(s, i + n, sliceArgs, sliceIdx + 1, dialect)
            ELSE << s[i] >> \o ReplaceAll(s, i + 1, sliceArgs, sliceIdx, dialect)

ParseResult(sqlStr, args, dialect) ==
    LET sp == SplitArgs(args, 1, dialect)
    IN IF sp.panic
       THEN [panic |-> TRUE, sql |-> << >>, args |-> << >>]
       ELSE [panic |-> FALSE,
             sql   |-> ReplaceAll(sqlStr, 1, sp.sliceArgs, 0, dialect),
             args  |-> sp.newArgs]

parseSqlIn(sqlStr, args) == ParseResult(sqlStr, args, "dollar")

parseSqlIn_pg(sqlStr, args) == ParseResult(sqlStr, args, "qmark")

(***************************************************************************)
(* Entity types and rows.                                                  *)
(* A type is its name, the text its TableName method returns (empty when   *)
(* it has none) and its fields in declaration order; a field is its name,  *)
(* its json and pri tags and its kind.  A row is a type and one value per  *)
(* field.  A pointer value carries the text %v prints for it, a time value *)
(* the text of its Format("2006-01-02 15:04:05") and w = 0 when IsZero.    *)
(***************************************************************************)
Field(name, json, pri, kind) == [name |-> name, json |-> json, pri |-> pri, kind |-> kind]

\* type User struct { ID int64 (pri:"true"); Name string; Email string }
EntUser ==
    [name |-> << "U", "s", "e", "r" >>, table |-> << >>,
     fields |-> << Field(<< "I", "D" >>, << >>, << "t", "r", "u", "e" >>, "int64"),
                   Field(<< "N", "a", "m", "e" >>, << >>, << >>, "string"),
                   Field(<< "E", "m", "a", "i", "l" >>, << >>, << >>, "string") >>]

\* type Item struct { Title string; Id int; Owner *User; MadeAt time.Time (json:"made") }
\* func (Item) TableName() string { return "items" }
EntItem ==
    [name |-> << "I", "t", "e", "m" >>, table |-> << "i", "t", "e", "m", "s" >>,
     fields |-> << Field(<< "T", "i", "t", "l", "e" >>, << >>, << >>, "string"),
                   Field(<< "I", "d" >>, << >>, << >>, "int"),
                   Field(<< "O", "w", "n", "e", "r" >>, << >>, << >>, "pointer"),
                   Field(<< "M", "a", "d", "e", "A", "t" >>, << "m", "a", "d", "e" >>, << >>, "time") >>]

\* type Tag struct { Key int64 (json:"id"); Label string }
EntTag ==
    [name |-> << "T", "a", "g" >>, table |-> << >>,
     fields |-> << Field(<< "K", "e", "y" >>, << "i", "d" >>, << >>, "int64"),
                   Field(<< "L", "a", "b", "e", "l" >>, << >>, << >>, "string") >>]

\* type AuditNote struct { Msg string (json:"message"); Count int }: no primary key
EntNote ==
    [name |-> << "A", "u", "d", "i", "t", "N", "o", "t", "e" >>, table |-> << >>,
     fields |-> << Field(<< "M", "s", "g" >>, << "m", "e", "s", "s", "a", "g", "e" >>, << >>, "string"),
                   Field(<< "C", "o", "u", "n", "t" >>, << >>, << >>, "int") >>]

\* type Meter struct { Id int32; Reading string }
EntMeter ==
    [name |-> << "M", "e", "t", "e", "r" >>, table |-> << >>,
     fields |-> << Field(<< "I", "d" >>, << >>, << >>, "int32"),
                   Field(<< "R", "e", "a", "d", "i", "n", "g" >>, << >>, << >>, "string") >>]

EntityIds == {"User", "Item", "Tag", "AuditNote", "Meter"}

Entity(id) ==
    CASE id = "User"      -> EntUser
      [] id = "Item"      -> EntItem
      [] id = "Tag"       -> EntTag
      [] id = "AuditNote" -> EntNote
      [] id = "Meter"     -> EntMeter

\* the value of a field of kind k in the n-th sample row
SampleValue(k, n) ==
    CASE k = "string"  -> IF n = 1 THEN StrVal(<< "a" >>) ELSE StrVal(<< "b" >>)
      [] k = "pointer" -> IF n = 1 THEN StrVal(<< "<", "n", "i", "l", ">" >>) ELSE StrVal(<< "0", "x", "c", "0" >>)
      [] k = "time"    -> IF n = 1 THEN [s |-> << "0", "0", "0", "1", "-", "0", "1", "-", "0", "1", " ", "0", "0", ":", "0", "0", ":", "0", "0" >>, w |-> 0, t |-> 0]
                                   ELSE [s |-> << "2", "0", "2", "4", "-", "0", "5", "-", "0", "6", " ", "0", "7", ":", "0", "8", ":", "0", "9" >>, w |-> 1, t |-> 0]
      [] OTHER         -> IF n = 1 THEN IntVal(0) ELSE IntVal(5 * n)

MaxSample == 2

SampleRow(id, n) ==
    [ent |-> id,
     vals |-> [i \in 1..Len(Entity(id).fields) |-> SampleValue(Entity(id).fields[i].kind, n)]]

Rows == { SampleRow(id, n) : id \in EntityIds, n \in 1..MaxSample }

(***************************************************************************)
(* SQL Synthesizer.                                                        *)
(***************************************************************************)
\* getTableName: the TableName method's text, else the snake-cased type name
getTableName(ent) == IF ent.table # << >> THEN ent.table ELSE toSnake(ent.name)

\* fmt.Sprintf("%v", value)
FormatValue(kind, v) ==
    CASE kind = "string"  -> v.s
      [] kind = "pointer" -> v.s
      [] kind = "time"    -> v.s \o << " ", "+", "0", "0", "0", "0", " ", "U", "T", "C" >>
      [] OTHER            -> FormatInt(v.w)

\* the json tag, else the snake-cased field name
ColumnOf(f) == IF f.json # << >> THEN f.json ELSE toSnake(f.name)

\* part_000 getKeysValues, lines 301-303
IsPrimary(f) == ColumnOf(f) = << "i", "d" >> \/ f.pri # << >>

\* part_000 getKeysValues: the value literal of one field
KVLiteral(kind, v) ==
    CASE kind = "string" -> Quoted(v.s)
      [] kind = "time"   -> IF v.w = 0 THEN << "D", "E", "F", "A", "U", "L", "T" >> ELSE Quoted(v.s)
      [] OTHER           -> FormatValue(kind, v)

\* part_000 getKeysValues: the loop over the fields cur..
RECURSIVE KVLoop(_, _, _)
KVLoop(fields, vals, cur) ==
    IF cur > Len(fields) THEN [keys |-> << >>, values |-> << >>]
    ELSE LET f    == fields[cur]
             rest == KVLoop(fields, vals, cur + 1)
         IN IF IsPrimary(f) \/ f.kind = "pointer"
            THEN rest
            ELSE [keys   |-> << ColumnOf(f) >> \o rest.keys,
                  values |-> << KVLiteral(f.kind, vals[cur]) >> \o rest.values]

getKeysValues(row) ==
    LET kv == KVLoop(Entity(row.ent).fields, row.vals, 1)
    IN [Key |-> Join(kv.keys, << "," >>), Value |-> Join(kv.values, << "," >>)]

\* the back-quote character, which a TLA+ string cannot hold
BackQuote == "bq"

\* pg.go getKeysValues: every field, the column back-quoted, a string quoted
RECURSIVE KVLoop_pg(_, _, _)
KVLoop_pg(fields, vals, cur) ==
    IF cur > Len(fields) THEN [keys |-> << >>, values |-> << >>]
    ELSE LET f    == fields[cur]
             rest == KVLoop_pg(fields, vals, cur + 1)
         IN [keys   |-> << << BackQuote >> \o ColumnOf(f) \o << BackQuote >> >> \o rest.keys,
             values |-> << IF f.kind = "string" THEN Quoted(vals[cur].s)
                           ELSE FormatValue(f.kind, vals[cur]) >> \o rest.values]

getKeysValues_pg(row) ==
    LET kv == KVLoop_pg(Entity(row.ent).fields, row.vals, 1)
    IN [Key |-> Join(kv.keys, << "," >>), Value |-> Join(kv.values, << "," >>)]

\* part_000 Insert, lines 89-92
InsertSql(row) ==
    LET kv == getKeysValues(row)
    IN << "I", "N", "S", "E", "R", "T", " ", "I", "N", "T", "O", " " >> \o getTableName(Entity(row.ent)) \o << "(" >> \o kv.Key
       \o << ")", " ", "V", "A", "L", "U", "E", "S", " ", "(" >> \o kv.Value \o << ")", " ", "R", "E", "T", "U", "R", "N", "I", "N", "G", " ", "i", "d" >>

\* pg.go Insert, lines 80-83
InsertSql_pg(row) ==
    LET kv == getKeysValues_pg(row)
    IN << "I", "N", "S", "E", "R", "T", " ", "I", "N", "T", "O", " " >> \o getTableName(Entity(row.ent)) \o << "(" >> \o kv.Key
       \o << ")", " ", "V", "A", "L", "U", "E", "S", " ", "(" >> \o kv.Value \o << ")" >>

\* "(.*?) " from position i of s: a space that no newline precedes
RECURSIVE LazyToSpace(_, _)
LazyToSpace(s, i) ==
    IF i > Len(s) THEN FALSE
    ELSE IF s[i] = " " THEN TRUE
    ELSE IF s[i] = "\n" THEN FALSE
    ELSE LazyToSpace(s, i + 1)

\* whether the pattern (?i)<word>(.*?)<space> matches somewhere in s, for the
\* lower-case text word
Matches(s, word) ==
    \E i \in 1..Len(s) : FoldedAt(s, i, word) /\ LazyToSpace(s, i + Len(word))

\* regexp.MustCompile("(?i)DELETE FROM (.*?) "), in both files
DeletePattern == << "d", "e", "l", "e", "t", "e", " ", "f", "r", "o", "m", " " >>

\* regexp.MustCompile("(?i)DELETE (.*?) "), part_000 line 415
UpdatePattern == << "d", "e", "l", "e", "t", "e", " " >>

generateDelete(sqlStr, ent) ==
    IF Matches(sqlStr, DeletePattern) THEN sqlStr
    ELSE << "D", "E", "L", "E", "T", "E", " ", "F", "R", "O", "M", " " >> \o getTableName(ent) \o << " ", "W", "H", "E", "R", "E", " " >> \o sqlStr

\* generateUpdate: the value literal of one field
SetLiteral(kind, v) ==
    CASE kind = "string" -> Quoted(v.s)
      [] kind = "time"   -> Quoted(v.s)
      [] OTHER           -> FormatValue(kind, v)

\* generateUpdate: the loop over the fields cur.., which sets an empty sqlStr
\* from the first primary field it meets
RECURSIVE SetLoop(_, _, _, _)
SetLoop(fields, vals, cur, sqlStr) ==
    IF cur > Len(fields) THEN [sets |-> << >>, sqlStr |-> sqlStr]
    ELSE LET f == fields[cur]
         IN IF IsPrimary(f)
            THEN SetLoop(fields, vals, cur + 1,
                         IF sqlStr = << >>
                         THEN ColumnOf(f) \o << " ", "=", " " >> \o FormatValue(f.kind, vals[cur])
                         ELSE sqlStr)
            ELSE IF f.kind = "pointer"
            THEN SetLoop(fields, vals, cur + 1, sqlStr)
            ELSE LET rest == SetLoop(fields, vals, cur + 1, sqlStr)
                 IN [rest EXCEPT !.sets =
                        << ColumnOf(f) \o << "=" >> \o SetLiteral(f.kind, vals[cur]) >> \o @]

generateUpdate(sqlStr, row) ==
    IF Matches(sqlStr, UpdatePattern) THEN sqlStr
    ELSE LET r == SetLoop(Entity(row.ent).fields, row.vals, 1, sqlStr)
         IN << "U", "P", "D", "A", "T", "E", " " >> \o getTableName(Entity(row.ent)) \o << " ", "S", "E", "T", " " >>
            \o Join(r.sets, << "," >>) \o << " ", "W", "H", "E", "R", "E", " " >> \o r.sqlStr

(***************************************************************************)
(* Primary-key write-back.                                                 *)
(***************************************************************************)
\* the kinds savePriFieldMap has an entry for
SaveKinds == {"int", "int64"}

\* savePrimaryKey: the loop over the fields cur..; the first field that is
\* named id, tagged id or tagged primary and whose kind has a conversion
\* receives lastId
RECURSIVE SaveLoop(_, _, _, _)
SaveLoop(fields, vals, cur, lastId) ==
    IF cur > Len(fields) THEN vals
    ELSE LET f == fields[cur]
         IN IF /\ \/ toSnake(f.name) = << "i", "d" >>
                  \/ f.json = << "i", "d" >>
                  \/ f.pri # << >>
               /\ f.kind \in SaveKinds
            THEN [vals EXCEPT ![cur] = IntVal(lastId)]
            ELSE SaveLoop(fields, vals, cur + 1, lastId)

savePrimaryKey(row, lastId) ==
    [row EXCEPT !.vals = SaveLoop(Entity(row.ent).fields, row.vals, 1, lastId)]

(***************************************************************************)
(* State.                                                                  *)
(*   p*  one call of parseSqlIn: its inputs and what it returned           *)
(*   s*  one statement synthesis: the operation, its row and filter         *)
(*       fragment (or, for a column name, the field identifier sName),     *)
(*       and the column list and statement (or column name) it produced    *)
(*   the rest: one call of Query, Insert, Update or Delete                 *)
(*     dialect, op, pc      which file, which entry point, where it is     *)
(*     kind, ent            reflect kind of T, and its struct type         *)
(*     dest, where, args    the parameters of the call                     *)
(*     sqlIn                Query's sqlStr parameter, as conditions        *)
(*     sqlStr               the statement text last handed to Prepare      *)
(*     tx                   the transaction: none, open, committed,        *)
(*                          rolledback, or failed (Commit returned an      *)
(*                          error, which ends the transaction too)         *)
(*     stmts, txStmts       open statements prepared on the handle, and on *)
(*                          the transaction (which Commit/Rollback close)  *)
(*     cursor               the row cursor: none, open, closed             *)
(*     prepares, queries    Prepare and Query/Exec calls made to the driver*)
(*     idx                  rows of dest the loop has completed            *)
(*     pending, stored      rows executed in the open transaction, rows    *)
(*                          committed                                      *)
(*     seq                  the identifier the database generates next     *)
(*     newDest, ret, failedAt   what the call returned, and the driver     *)
(*                          call that failed                               *)
(*     columns, resRows     the result set: column names, and per row the  *)
(*                          sample its cells come from                     *)
(*     pos, onRow           rows Next has delivered; whether Scan has a    *)
(*                          current row                                    *)
(*     fieldNames, values   the fields bound to result columns (by index)  *)
(*                          and their receivers                            *)
(*     meta, t              unmarshalSlice's element, and the destination  *)
(***************************************************************************)
VARIABLES pDialect, pSegs, pArgs, pDone, pPanic, pSql, pNewArgs,
          sDialect, sOp, sRow, sWhere, sName, sDone, sKey, sOut,
          dialect, op, pc, kind, ent, dest, where, args, sqlIn, sqlStr,
          tx, stmts, txStmts, cursor, prepares, queries,
          idx, pending, stored, seq, newDest, ret, failedAt,
          columns, resRows, pos, onRow, fieldNames, values, meta, t

pvars == << pDialect, pSegs, pArgs, pDone, pPanic, pSql, pNewArgs >>

svars == << sDialect, sOp, sRow, sWhere, sName, sDone, sKey, sOut >>

\* the parameters of a call
cvars == << dialect, op, kind, ent, dest, where, sqlIn, columns, resRows >>

\* the driver-side handles
hvars == << tx, stmts, txStmts, cursor >>

\* the batch loop and the database
bvars == << idx, pending, stored, seq, newDest >>

\* the row marshaller
mvars == << pos, onRow, fieldNames, values, meta, t >>

fvars == << cvars, hvars, bvars, mvars, pc, args, sqlStr, prepares, queries, ret, failedAt >>

vars == << pvars, svars, fvars >>

Dialects == {"dollar", "qmark"}

(***************************************************************************)
(* Inputs of parseSqlIn.  SQL text is a sequence of conditions; the k-th   *)
(* placeholder of the text is $k in the dollar dialect and ? in the qmark  *)
(* dialect.                                                                *)
(*   "in"    a IN $k        "inlc"   b in $k        "eq"    c = $k         *)
(***************************************************************************)
MaxK == 2

SegKinds == {"in", "inlc", "eq"}

IsInSeg(seg) == seg \in {"in", "inlc"}

SegHead(seg) ==
    CASE seg = "in"   -> << " ", "a", " ", "I", "N", " " >>
      [] seg = "inlc" -> << " ", "b", " ", "i", "n", " " >>
      [] seg = "eq"   -> << " ", "c", " ", "=", " " >>

Placeholder(k, dl) == IF dl = "dollar" THEN << "$" >> \o FormatNat(k)
                           ELSE << "?" >>

\* the SQL text of the conditions segs[i..], their placeholders numbered from k
RECURSIVE SqlFrom(_, _, _, _)
SqlFrom(segs, i, k, dl) ==
    IF i > Len(segs) THEN << >>
    ELSE SegHead(segs[i]) \o Placeholder(k, dl) \o SqlFrom(segs, i + 1, k + 1, dl)

SqlText(segs, dl) == SqlFrom(segs, 1, 1, dl)

StringItems == << StrVal(<< "p" >>), StrVal(<< "q", "r" >>), StrVal(<< "s" >>) >>
IntItems    == << IntVal(1), IntVal(20), IntVal(3) >>
FloatItems  == << FloatVal(1, 5), FloatVal(2, 0), FloatVal(0, 3) >>

ItemsOf(elem, n) ==
    CASE elem = "string"  -> SubSeq(StringItems, 1, n)
      [] elem = "float64" -> SubSeq(FloatItems, 1, n)
      [] OTHER            -> SubSeq(IntItems, 1, n)

\* a []bool is a sequence whose element kind has no conversion
ArgValues ==
    { [kind |-> "int", elem |-> "", items |-> << IntVal(7) >>],
      [kind |-> "string", elem |-> "", items |-> << StrVal(<< "k" >>) >>] }
    \cup { [kind |-> "slice", elem |-> e, items |-> ItemsOf(e, n)] :
             e \in ConvertKinds, n \in 0..MaxK }
    \cup { [kind |-> "slice", elem |-> "bool", items |-> << IntVal(1) >>] }

SeqsUpTo(S, n) == UNION { [1..m -> S] : m \in 0..n }

\* no call of parseSqlIn is modelled
ParseIdle ==
    /\ pDialect = "dollar"
    /\ pSegs = << >>
    /\ pArgs = << >>
    /\ pDone = TRUE
    /\ pPanic = FALSE
    /\ pSql = << >>
    /\ pNewArgs = << >>

\* no statement synthesis is modelled
SynthIdle ==
    /\ sDialect = "dollar"
    /\ sOp = "none"
    /\ sRow = SampleRow("User", 1)
    /\ sWhere = "empty"
    /\ sName = << >>
    /\ sDone = TRUE
    /\ sKey = << >>
    /\ sOut = << >>

\* a struct value of a type: one value per field
ZeroValue(k) ==
    CASE k = "string"  -> StrVal(<< >>)
      [] k = "pointer" -> StrVal(<< "<", "n", "i", "l", ">" >>)
      [] k = "time"    -> [s |-> << "0", "0", "0", "1", "-", "0", "1", "-", "0", "1", " ", "0", "0", ":", "0", "0", ":", "0", "0" >>, w |-> 0, t |-> 0]
      [] OTHER         -> IntVal(0)

ZeroStruct(id) == [i \in 1..Len(Entity(id).fields) |-> ZeroValue(Entity(id).fields[i].kind)]

\* t = new(T): the zero destination, as a struct, a slice and a scalar
ZeroDest(id) == [st |-> ZeroStruct(id), sl |-> << >>, sc |-> IntVal(0), set |-> FALSE]

\* the handles and the marshaller before a call has touched them
FreshCall ==
    /\ pc = "start"
    /\ sqlStr = << >>
    /\ tx = "none" /\ stmts = 0 /\ txStmts = 0 /\ cursor = "none"
    /\ prepares = 0 /\ queries = 0
    /\ idx = 0 /\ pending = 0 /\ stored = 0 /\ seq = 41
    /\ newDest = << >> /\ ret = "none" /\ failedAt = "none"
    /\ pos = 0 /\ onRow = FALSE /\ fieldNames = << >> /\ values = << >>
    /\ meta = ZeroStruct(ent) /\ t = ZeroDest(ent)

\* no call is modelled
CallIdle ==
    /\ dialect = "dollar" /\ op = "none" /\ kind = "struct" /\ ent = "User"
    /\ dest = << >> /\ where = "empty" /\ args = << >> /\ sqlIn = << >>
    /\ columns = << >> /\ resRows = << >>
    /\ FreshCall

InitParse ==
    /\ pDialect \in Dialects
    /\ pSegs \in SeqsUpTo(SegKinds, MaxSegs)
    /\ pArgs \in SeqsUpTo(ArgValues, MaxArgs)
    /\ pDone = FALSE
    /\ pPanic = FALSE
    /\ pSql = << >>
    /\ pNewArgs = << >>
    /\ SynthIdle
    /\ CallIdle

\* one call parseSqlIn(sqlStr, args) of src/unnamed/part_000
CallParseSqlIn ==
    /\ ~pDone
    /\ pDialect = "dollar"
    /\ LET r == parseSqlIn(SqlText(pSegs, pDialect), pArgs)
       IN /\ pPanic' = r.panic
          /\ pSql' = r.sql
          /\ pNewArgs' = r.args
    /\ pDone' = TRUE
    /\ UNCHANGED << pDialect, pSegs, pArgs, svars, fvars >>

\* one call parseSqlIn(sqlStr, args) of src/pg.go
CallParseSqlIn_pg ==
    /\ ~pDone
    /\ pDialect = "qmark"
    /\ LET r == parseSqlIn_pg(SqlText(pSegs, pDialect), pArgs)
       IN /\ pPanic' = r.panic
          /\ pSql' = r.sql
          /\ pNewArgs' = r.args
    /\ pDone' = TRUE
    /\ UNCHANGED << pDialect, pSegs, pArgs, svars, fvars >>

NextParse == CallParseSqlIn \/ CallParseSqlIn_pg

SpecParse == InitParse /\ [][NextParse]_vars

(***************************************************************************)
(* What the expansion is to produce, stated from the argument list alone.  *)
(***************************************************************************)
\* an element as a literal: a string single-quoted, a number bare
LiteralOf(elem, item) ==
    CASE elem = "string"  -> Quoted(item.s)
      [] elem = "float64" -> FormatFloat(item)
      [] OTHER            -> FormatInt(item.w)

\* the parenthesized list of the K elements of a sequence argument
LiteralList(arg) ==
    << "(" >>
    \o Join([i \in 1..Len(arg.items) |-> LiteralOf(arg.elem, arg.items[i])], << "," >>)
    \o << ")" >>

\* the column a condition tests
SegColumn(seg) ==
    CASE seg = "in"   -> << " ", "a" >>
      [] seg = "inlc" -> << " ", "b" >>
      [] seg = "eq"   -> << " ", "c" >>

\* the conditions segs[i..] with the IN placeholders replaced left to right by
\* lists[j..], and by the bare keyword once the lists have run out
RECURSIVE ExpandedFrom(_, _, _, _, _)
ExpandedFrom(segs, i, lists, j, dl) ==
    IF i > Len(segs) THEN << >>
    ELSE IF IsInSeg(segs[i])
         THEN SegColumn(segs[i]) \o << " ", "I", "N", " " >>
              \o (IF j <= Len(lists) THEN lists[j] ELSE << >>)
              \o ExpandedFrom(segs, i + 1, lists, j + 1, dl)
         ELSE SegHead(segs[i]) \o Placeholder(i, dl)
              \o ExpandedFrom(segs, i + 1, lists, j, dl)

NumInSegs(segs) == Cardinality({i \in 1..Len(segs) : IsInSeg(segs[i])})

\* a sequence argument that yields an expansion
IsPending(arg) == IsSlice(arg) /\ Len(arg.items) > 0 /\ arg.elem \in ConvertKinds

PendingLists(as) ==
    LET pend == SelectSeq(as, IsPending)
    IN [j \in 1..Len(pend) |-> LiteralList(pend[j])]

\* C4: for SQL text with exactly one IN placeholder and an argument list of
\* one sequence argument of length K (every K, every element kind string, int,
\* int64, float64), parseSqlIn returns the statement with the placeholder
\* replaced by the parenthesized list of the K literals, and no residual
\* argument.
C4_InExpansion ==
    (/\ pDone
     /\ NumInSegs(pSegs) = 1
     /\ Len(pSegs) = 1
     /\ Len(pArgs) = 1
     /\ IsSlice(pArgs[1])
     /\ pArgs[1].elem \in ConvertKinds)
    => (/\ ~pPanic
        /\ pNewArgs = << >>
        /\ pSql = ExpandedFrom(pSegs, 1, << LiteralList(pArgs[1]) >>, 1, pDialect))

\* C4 for the sequences the code does expand: the dollar dialect and K >= 1
C4_DollarNonEmpty ==
    (/\ pDone
     /\ pDialect = "dollar"
     /\ NumInSegs(pSegs) = 1
     /\ Len(pSegs) = 1
     /\ Len(pArgs) = 1
     /\ IsPending(pArgs[1]))
    => (/\ ~pPanic
        /\ pNewArgs = << >>
        /\ pSql = ExpandedFrom(pSegs, 1, << LiteralList(pArgs[1]) >>, 1, pDialect))

\* C5: in both dialects the statement parseSqlIn returns has its IN
\* placeholders replaced left to right by the pending expansions in argument
\* order, and each surplus placeholder rewritten to the bare keyword IN with no
\* parenthesis.
C5_SurplusBare ==
    (pDone /\ ~pPanic)
    => pSql = ExpandedFrom(pSegs, 1, PendingLists(pArgs), 1, pDialect)

\* C5 in the dollar dialect alone
C5_DollarSurplusBare ==
    (pDone /\ pDialect = "dollar")
    => (/\ ~pPanic
        /\ pSql = ExpandedFrom(pSegs, 1, PendingLists(pArgs), 1, pDialect))

\* a call with more IN placeholders than pending expansions has returned
C5_SurplusReturned ==
    /\ pDone
    /\ ~pPanic
    /\ NumInSegs(pSegs) > Len(PendingLists(pArgs))
    /\ Len(PendingLists(pArgs)) > 0

\* the digit a character stands for
DigitValue(c) == CHOOSE d \in 0..9 : FormatNat(d) = << c >>

\* the number written by the len digits of s from position i on
RECURSIVE NumberAt(_, _, _)
NumberAt(s, i, len) ==
    IF len = 0 THEN 0
    ELSE 10 * NumberAt(s, i, len - 1) + DigitValue(s[i + len - 1])

\* the numbers k of the placeholders $k in a statement
PlaceholderNumbers(s) ==
    { NumberAt(s, j + 1, DigitRun(s, j + 1)) :
        j \in { i \in 1..Len(s) : s[i] = "$" /\ DigitRun(s, i + 1) > 0 } }

\* the call is well formed: placeholder $i stands for argument i, which is a
\* sequence exactly when the placeholder is an IN placeholder
WellNumbered ==
    /\ pDialect = "dollar"
    /\ Len(pArgs) = Len(pSegs)
    /\ \A i \in 1..Len(pSegs) : IsInSeg(pSegs[i]) <=> IsSlice(pArgs[i])

\* the arguments that are no sequences, in their original order
Residual(as) == SelectSeq(as, LAMBDA a : ~IsSlice(a))

\* C15: for a well-formed call the statement and residual arguments that
\* parseSqlIn returns agree: the residual arguments are the non-sequence
\* arguments in their original order, and every placeholder $k left in the
\* statement has k within the residual arguments and refers to the argument
\* it referred to before.
C15_PlaceholdersAgree ==
    (pDone /\ ~pPanic /\ WellNumbered)
    => /\ pNewArgs = Residual(pArgs)
       /\ \A k \in PlaceholderNumbers(pSql) :
            k <= Len(pNewArgs) /\ pNewArgs[k] = pArgs[k]

\* C15 for the calls whose sequence arguments all come after the others
C15_SequencesLast ==
    (\A i \in 1..Len(pArgs) : \A j \in 1..(i - 1) : IsSlice(pArgs[j]) => IsSlice(pArgs[i]))
    => C15_PlaceholdersAgree

\* what is returned otherwise: the residual arguments in order, and every
\* remaining placeholder with the number it had in the text passed in
C15_NotRenumbered ==
    (pDone /\ ~pPanic /\ WellNumbered)
    => /\ pNewArgs = Residual(pArgs)
       /\ PlaceholderNumbers(pSql) = { i \in 1..Len(pSegs) : ~IsInSeg(pSegs[i]) }

(***************************************************************************)
(* Statement synthesis: the statement text Insert, Update and Delete build *)
(* for one row and one filter fragment.  src/pg.go has no Update.          *)
(***************************************************************************)
WhereIds == {"empty", "bare", "update", "updatelc", "delete", "deletelc", "quoted"}

WhereText(w) ==
    CASE w = "empty"    -> << >>
      [] w = "bare"     -> << "i", "d", " ", "=", " ", "5" >>
      [] w = "update"   -> << "U", "P", "D", "A", "T", "E", " ", "u", "s", "e", "r", " ", "S", "E", "T", " ", "n", "a", "m", "e", "=", "'", "b", "'", " ", "W", "H", "E", "R", "E", " ", "i", "d", " ", "=", " ", "5" >>
      [] w = "updatelc" -> << "u", "p", "d", "a", "t", "e", " ", "u", "s", "e", "r", " ", "s", "e", "t", " ", "n", "a", "m", "e", "=", "'", "b", "'", " ", "w", "h", "e", "r", "e", " ", "i", "d", " ", "=", " ", "5" >>
      [] w = "delete"   -> << "D", "E", "L", "E", "T", "E", " ", "F", "R", "O", "M", " ", "u", "s", "e", "r", " ", "W", "H", "E", "R", "E", " ", "i", "d", " ", "=", " ", "5" >>
      [] w = "deletelc" -> << "d", "e", "l", "e", "t", "e", " ", "f", "r", "o", "m", " ", "u", "s", "e", "r", " ", "w", "h", "e", "r", "e", " ", "i", "d", " ", "=", " ", "5" >>
      [] w = "quoted"   -> << "n", "o", "t", "e", " ", "=", " ", "'", "d", "e", "l", "e", "t", "e", " ", "m", "e", " ", "n", "o", "w", "'" >>

\* the longest field identifier tried letter by letter
MaxIdent == 4

IdentChars == {"U", "I", "d", "s"}

\* field identifiers: Go identifiers of exported fields, which begin with an
\* upper-case letter
FieldIdents ==
    { << "U", "s", "e", "r", "I", "D" >>, << "U", "s", "e", "r", "N", "a", "m", "e" >>, << "I", "D" >>, << "N", "a", "m", "e" >>, << "H", "T", "T", "P", "S", "e", "r", "v", "e", "r" >> }
    \cup { s \in SeqsUpTo(IdentChars, MaxIdent) : Len(s) >= 1 /\ IsUpper(s[1]) }

InitSynth ==
    /\ sOp \in {"Insert", "Update", "Delete", "Column"}
    /\ sDialect \in (IF sOp = "Update" THEN {"dollar"} ELSE Dialects)
    /\ sRow \in (IF sOp = "Column" THEN {SampleRow("User", 1)} ELSE Rows)
    /\ sWhere \in (IF sOp \in {"Insert", "Column"} THEN {"empty"} ELSE WhereIds)
    /\ sName \in (IF sOp = "Column" THEN FieldIdents ELSE {<< >>})
    /\ sDone = FALSE
    /\ sKey = << >>
    /\ sOut = << >>
    /\ ParseIdle
    /\ CallIdle

\* part_000 Insert: the statement of one row
SynthInsert ==
    /\ ~sDone /\ sOp = "Insert" /\ sDialect = "dollar"
    /\ sKey' = getKeysValues(sRow).Key
    /\ sOut' = InsertSql(sRow)
    /\ sDone' = TRUE
    /\ UNCHANGED << sDialect, sOp, sRow, sWhere, sName, pvars, fvars >>

\* pg.go Insert: the statement of one row
SynthInsert_pg ==
    /\ ~sDone /\ sOp = "Insert" /\ sDialect = "qmark"
    /\ sKey' = getKeysValues_pg(sRow).Key
    /\ sOut' = InsertSql_pg(sRow)
    /\ sDone' = TRUE
    /\ UNCHANGED << sDialect, sOp, sRow, sWhere, sName, pvars, fvars >>

\* part_000 Update: the statement of one row
SynthUpdate ==
    /\ ~sDone /\ sOp = "Update"
    /\ sOut' = generateUpdate(WhereText(sWhere), sRow)
    /\ sDone' = TRUE
    /\ UNCHANGED << sDialect, sOp, sRow, sWhere, sName, sKey, pvars, fvars >>

\* Delete, both files: the statement before the IN expansion
SynthDelete ==
    /\ ~sDone /\ sOp = "Delete"
    /\ sOut' = generateDelete(WhereText(sWhere), Entity(sRow.ent))
    /\ sDone' = TRUE
    /\ UNCHANGED << sDialect, sOp, sRow, sWhere, sName, sKey, pvars, fvars >>

\* toSnake, both files: the column name of one field identifier
SynthColumn ==
    /\ ~sDone /\ sOp = "Column"
    /\ sOut' = toSnake(sName)
    /\ sDone' = TRUE
    /\ UNCHANGED << sDialect, sOp, sRow, sWhere, sName, sKey, pvars, fvars >>

NextSynth == SynthInsert \/ SynthInsert_pg \/ SynthUpdate \/ SynthDelete \/ SynthColumn

SpecSynth == InitSynth /\ [][NextSynth]_vars

\* the fields of a type that are neither primary nor pointers, in declaration order
PlainFields(ty) == SelectSeq(ty.fields, LAMBDA f : ~IsPrimary(f) /\ f.kind # "pointer")

HasPrimary(ty) == \E i \in 1..Len(ty.fields) : IsPrimary(ty.fields[i])

FirstPrimary(ty) == CHOOSE i \in 1..Len(ty.fields) :
                        /\ IsPrimary(ty.fields[i])
                        /\ \A j \in 1..(i - 1) : ~IsPrimary(ty.fields[j])

\* the column list of the plain fields, as the dialect writes identifiers
PlainColumns(ty, dl) ==
    LET fs == PlainFields(ty)
    IN Join([i \in 1..Len(fs) |->
                IF dl = "qmark"
                THEN << BackQuote >> \o ColumnOf(fs[i]) \o << BackQuote >>
                ELSE ColumnOf(fs[i])],
            << "," >>)

\* s begins with the text w
BeginsWith(s, w) == TextAt(s, 1, w)

\* C6: in both dialects the column list of the INSERT statement of a row is
\* exactly the non-primary, non-pointer fields in declaration order, so the
\* primary-key column is never referenced.
C6_InsertColumns ==
    (sDone /\ sOp = "Insert")
    => (/\ sKey = PlainColumns(Entity(sRow.ent), sDialect)
        /\ BeginsWith(sOut, << "I", "N", "S", "E", "R", "T", " ", "I", "N", "T", "O", " " >> \o getTableName(Entity(sRow.ent))
                            \o << "(" >> \o PlainColumns(Entity(sRow.ent), sDialect)
                            \o << ")" >>))

\* C6 in the dollar dialect alone
C6_DollarInsertColumns ==
    (sDone /\ sOp = "Insert" /\ sDialect = "dollar") => C6_InsertColumns

\* a fragment that begins with neither statement keyword
IsBareFilter(w) == ~FoldedAt(w, 1, << "u", "p", "d", "a", "t", "e" >>) /\ ~FoldedAt(w, 1, << "d", "e", "l", "e", "t", "e" >>)

\* the SET list of a row: column=literal of every plain field
SetList(row) ==
    LET ty == Entity(row.ent)
        ix == SelectSeq([i \in 1..Len(ty.fields) |-> i],
                         LAMBDA i : ~IsPrimary(ty.fields[i]) /\ ty.fields[i].kind # "pointer")
    IN Join([k \in 1..Len(ix) |->
                ColumnOf(ty.fields[ix[k]]) \o << "=" >>
                \o SetLiteral(ty.fields[ix[k]].kind, row.vals[ix[k]])],
            << "," >>)

\* the equality of the primary-key column with the row's primary-key value
PrimaryEquality(row) ==
    LET ty == Entity(row.ent)
        i   == FirstPrimary(ty)
    IN ColumnOf(ty.fields[i]) \o << " ", "=", " " >> \o FormatValue(ty.fields[i].kind, row.vals[i])

UpdateStatement(row, w) ==
    << "U", "P", "D", "A", "T", "E", " " >> \o getTableName(Entity(row.ent)) \o << " ", "S", "E", "T", " " >> \o SetList(row)
    \o << " ", "W", "H", "E", "R", "E", " " >> \o (IF w # << >> THEN w ELSE PrimaryEquality(row))

\* C7: for every row and every bare filter fragment, the UPDATE statement has
\* a SET list of exactly the non-primary, non-pointer fields in declaration
\* order, and its WHERE clause is the fragment when that is non-empty and
\* otherwise the equality of the primary-key column with the row's value.
C7_UpdateSetWhere ==
    (/\ sDone /\ sOp = "Update"
     /\ IsBareFilter(WhereText(sWhere))
     /\ HasPrimary(Entity(sRow.ent)))
    => sOut = UpdateStatement(sRow, WhereText(sWhere))

\* C7 for the fragments generateUpdate does not take for a complete statement
C7_WhenNoPatternMatch ==
    (/\ sDone /\ sOp = "Update"
     /\ ~Matches(WhereText(sWhere), UpdatePattern)
     /\ (HasPrimary(Entity(sRow.ent)) \/ sWhere # "empty"))
    => sOut = UpdateStatement(sRow, WhereText(sWhere))

\* C8: Update and Delete send a fragment that begins with their own keyword
\* (UPDATE, DELETE, in any case) verbatim, and prefix every other fragment
\* with the synthesized table clause.
C8_PrefixUnlessStatement ==
    (sDone /\ sOp \in {"Update", "Delete"})
    => LET w   == WhereText(sWhere)
           ty == Entity(sRow.ent)
       IN IF sOp = "Update"
          THEN IF FoldedAt(w, 1, << "u", "p", "d", "a", "t", "e" >>)
               THEN sOut = w
               ELSE BeginsWith(sOut, << "U", "P", "D", "A", "T", "E", " " >> \o getTableName(ty) \o << " ", "S", "E", "T", " " >>)
          ELSE IF FoldedAt(w, 1, << "d", "e", "l", "e", "t", "e" >>)
               THEN sOut = w
               ELSE sOut = << "D", "E", "L", "E", "T", "E", " ", "F", "R", "O", "M", " " >> \o getTableName(ty) \o << " ", "W", "H", "E", "R", "E", " " >> \o w

\* C8 for Delete alone
C8_DeleteOnly ==
    (sDone /\ sOp = "Delete") => C8_PrefixUnlessStatement

\* the column name that makes one lower-case word of every run of upper-case
\* letters: a delimiter before an upper-case letter that follows a letter
\* which is not upper-case, and everything lower-cased
RECURSIVE SnakeByRunsFrom(_, _)
SnakeByRunsFrom(name, i) ==
    IF i > Len(name) THEN << >>
    ELSE (IF IsUpper(name[i]) /\ i > 1 /\ ~IsUpper(name[i - 1]) THEN << "_" >> ELSE << >>)
         \o << ToLower(name[i]) >>
         \o SnakeByRunsFrom(name, i + 1)

\* C12: toSnake maps UserID to user_id, and in general a run of consecutive
\* upper-case letters to one delimited lower-case word.
C12_RunIsOneWord ==
    (sDone /\ sOp = "Column") => sOut = SnakeByRunsFrom(sName, 1)

\* C12 for the identifiers without two consecutive upper-case letters
C12_SingleCapitals ==
    (/\ sDone /\ sOp = "Column"
     /\ \A i \in 2..Len(sName) : ~(IsUpper(sName[i]) /\ IsUpper(sName[i - 1])))
    => sOut = SnakeByRunsFrom(sName, 1)

\* what toSnake makes of UserID
C12_UserID ==
    (sDone /\ sOp = "Column" /\ sName = << "U", "s", "e", "r", "I", "D" >>) => sOut = << "u", "s", "e", "r", "_", "i", "_", "d" >>

(***************************************************************************)
(* The write path: Insert, Update and Delete against the driver.  Every    *)
(* driver call either succeeds or returns an error.                        *)
(***************************************************************************)
\* argument lists of a call
CallArgs ==
    { << >>,
      << [kind |-> "slice", elem |-> "int64", items |-> ItemsOf("int64", 2)] >>,
      << [kind |-> "slice", elem |-> "int", items |-> ItemsOf("int", 2)] >> }

\* a batch of n rows of one type
Batch(id, n) == [i \in 1..n |-> SampleRow(id, (i % MaxSample) + 1)]

NoResultSet == columns = << >> /\ resRows = << >>

InitInsert ==
    /\ op = "Insert"
    /\ dialect \in Dialects
    /\ kind \in {"struct", "pointer"}
    /\ ent \in EntityIds
    /\ dest \in { Batch(ent, n) : n \in 0..MaxBatch }
    /\ where = "empty" /\ args = << >> /\ sqlIn = << >>
    /\ NoResultSet
    /\ FreshCall

\* src/pg.go has no Update
InitUpdate ==
    /\ op = "Update"
    /\ dialect = "dollar"
    /\ kind \in {"struct", "pointer"}
    /\ ent \in EntityIds
    /\ dest \in { Batch(ent, n) : n \in 0..MaxBatch }
    /\ where \in WhereIds
    /\ args = << >> /\ sqlIn = << >>
    /\ NoResultSet
    /\ FreshCall

InitDelete ==
    /\ op = "Delete"
    /\ dialect \in Dialects
    /\ kind \in {"struct", "pointer"}
    /\ ent \in EntityIds
    /\ dest = << >>
    /\ where \in WhereIds
    /\ args \in CallArgs
    /\ sqlIn = << >>
    /\ NoResultSet
    /\ FreshCall

\* the call returns
Return(r, f) == pc' = "done" /\ ret' = r /\ failedAt' = f

\* tx.Rollback(): the transaction ends, its statements are closed and the
\* rows executed in it are discarded
Rollback == tx' = "rolledback" /\ txStmts' = 0 /\ pending' = 0

\* Insert, lines 75-80: a pointer-typed T is rejected before any driver call
InsertCheck ==
    /\ op = "Insert" /\ pc = "start"
    /\ IF kind = "pointer"
       THEN Return("ErrInsertAllow", "none")
       ELSE pc' = "begin" /\ UNCHANGED << ret, failedAt >>
    /\ UNCHANGED << cvars, hvars, bvars, mvars, args, sqlStr, prepares, queries, pvars, svars >>

\* Insert, lines 84-87: db.Begin()
InsertBegin ==
    /\ op = "Insert" /\ pc = "begin"
    /\ \/ tx' = "open" /\ pc' = "row" /\ UNCHANGED << ret, failedAt >>
       \/ Return("driver", "begin") /\ UNCHANGED tx
    /\ UNCHANGED << cvars, stmts, txStmts, cursor, bvars, mvars, args, sqlStr,
                    prepares, queries, pvars, svars >>

\* part_000 Insert, lines 88-98: the statement of the next row, and tx.Prepare
InsertPrepare ==
    /\ op = "Insert" /\ pc = "row" /\ dialect = "dollar" /\ idx < Len(dest)
    /\ sqlStr' = InsertSql(dest[idx + 1])
    /\ prepares' = prepares + 1
    /\ \/ /\ txStmts' = txStmts + 1 /\ pc' = "exec"
          /\ UNCHANGED << tx, pending, newDest, ret, failedAt >>
       \/ Rollback /\ newDest' = << >> /\ Return("driver", "prepare")
    /\ UNCHANGED << cvars, stmts, cursor, idx, stored, seq, mvars, args, queries, pvars, svars >>

\* part_000 Insert, lines 99-109: stmt.QueryRowContext(ctx).Scan(&lastId),
\* savePrimaryKey and append.  A failure of the query or of the Scan returns
\* without tx.Rollback().
InsertQueryRow ==
    /\ op = "Insert" /\ pc = "exec" /\ dialect = "dollar"
    /\ queries' = queries + 1
    /\ \/ /\ pending' = pending + 1
          /\ seq' = seq + 1
          /\ newDest' = Append(newDest, savePrimaryKey(dest[idx + 1], seq))
          /\ idx' = idx + 1
          /\ pc' = "row"
          /\ UNCHANGED << ret, failedAt >>
       \/ /\ newDest' = << >> /\ Return("driver", "exec")
          /\ UNCHANGED << pending, seq, idx >>
       \/ /\ pending' = pending + 1
          /\ seq' = seq + 1
          /\ newDest' = << >> /\ Return("driver", "lastid")
          /\ UNCHANGED idx
    /\ UNCHANGED << cvars, hvars, stored, mvars, args, sqlStr, prepares, pvars, svars >>

\* pg.go Insert, lines 79-88
InsertPrepare_pg ==
    /\ op = "Insert" /\ pc = "row" /\ dialect = "qmark" /\ idx < Len(dest)
    /\ sqlStr' = InsertSql_pg(dest[idx + 1])
    /\ prepares' = prepares + 1
    /\ \/ /\ txStmts' = txStmts + 1 /\ pc' = "exec"
          /\ UNCHANGED << tx, pending, newDest, ret, failedAt >>
       \/ Rollback /\ newDest' = << >> /\ Return("driver", "prepare")
    /\ UNCHANGED << cvars, stmts, cursor, idx, stored, seq, mvars, args, queries, pvars, svars >>

\* pg.go Insert, lines 89-93: stmt.ExecContext(ctx)
InsertExec_pg ==
    /\ op = "Insert" /\ pc = "exec" /\ dialect = "qmark"
    /\ queries' = queries + 1
    /\ \/ /\ pending' = pending + 1 /\ seq' = seq + 1 /\ pc' = "lastid"
          /\ UNCHANGED << tx, txStmts, newDest, ret, failedAt >>
       \/ Rollback /\ newDest' = << >> /\ Return("driver", "exec") /\ UNCHANGED seq
    /\ UNCHANGED << cvars, stmts, cursor, idx, stored, mvars, args, sqlStr, prepares, pvars, svars >>

\* pg.go Insert, lines 94-100: result.LastInsertId(), savePrimaryKey and append
InsertLastId_pg ==
    /\ op = "Insert" /\ pc = "lastid" /\ dialect = "qmark"
    /\ \/ /\ newDest' = Append(newDest, savePrimaryKey(dest[idx + 1], seq - 1))
          /\ idx' = idx + 1
          /\ pc' = "row"
          /\ UNCHANGED << tx, txStmts, pending, ret, failedAt >>
       \/ Rollback /\ newDest' = << >> /\ Return("driver", "lastid") /\ UNCHANGED idx
    /\ UNCHANGED << cvars, stmts, cursor, stored, seq, mvars, args, sqlStr,
                    prepares, queries, pvars, svars >>

\* Insert, lines 111-114: tx.Commit() once the loop is over.  Commit ends the
\* transaction and closes its statements whether or not it returns an error.
InsertCommit ==
    /\ op = "Insert" /\ pc = "row" /\ idx = Len(dest)
    /\ txStmts' = 0 /\ pending' = 0
    /\ \/ /\ tx' = "committed" /\ stored' = stored + pending
          /\ Return("ok", "none") /\ UNCHANGED newDest
       \/ /\ tx' = "failed" /\ newDest' = << >>
          /\ Return("driver", "commit") /\ UNCHANGED stored
    /\ UNCHANGED << cvars, stmts, cursor, idx, seq, mvars, args, sqlStr,
                    prepares, queries, pvars, svars >>

\* Update, lines 118-122
UpdateCheck ==
    /\ op = "Update" /\ pc = "start"
    /\ IF kind = "pointer"
       THEN Return("ErrUpdateAllow", "none")
       ELSE pc' = "begin" /\ UNCHANGED << ret, failedAt >>
    /\ UNCHANGED << cvars, hvars, bvars, mvars, args, sqlStr, prepares, queries, pvars, svars >>

\* Update, lines 123-126
UpdateBegin ==
    /\ op = "Update" /\ pc = "begin"
    /\ \/ tx' = "open" /\ pc' = "row" /\ UNCHANGED << ret, failedAt >>
       \/ Return("driver", "begin") /\ UNCHANGED tx
    /\ UNCHANGED << cvars, stmts, txStmts, cursor, bvars, mvars, args, sqlStr,
                    prepares, queries, pvars, svars >>

\* Update, lines 127-133: generateUpdate and tx.Prepare
UpdatePrepare ==
    /\ op = "Update" /\ pc = "row" /\ idx < Len(dest)
    /\ sqlStr' = generateUpdate(WhereText(where), dest[idx + 1])
    /\ prepares' = prepares + 1
    /\ \/ /\ txStmts' = txStmts + 1 /\ pc' = "exec"
          /\ UNCHANGED << tx, pending, ret, failedAt >>
       \/ Rollback /\ Return("driver", "prepare")
    /\ UNCHANGED << cvars, stmts, cursor, idx, stored, seq, newDest, mvars, args,
                    queries, pvars, svars >>

\* Update, lines 134-139: stmt.ExecContext(ctx, args...)
UpdateExec ==
    /\ op = "Update" /\ pc = "exec"
    /\ queries' = queries + 1
    /\ \/ /\ pending' = pending + 1 /\ idx' = idx + 1 /\ pc' = "row"
          /\ UNCHANGED << tx, txStmts, ret, failedAt >>
       \/ Rollback /\ Return("driver", "exec") /\ UNCHANGED idx
    /\ UNCHANGED << cvars, stmts, cursor, stored, seq, newDest, mvars, args, sqlStr,
                    prepares, pvars, svars >>

\* Update, lines 141-144
UpdateCommit ==
    /\ op = "Update" /\ pc = "row" /\ idx = Len(dest)
    /\ txStmts' = 0 /\ pending' = 0
    /\ \/ tx' = "committed" /\ stored' = stored + pending /\ Return("ok", "none")
       \/ tx' = "failed" /\ Return("driver", "commit") /\ UNCHANGED stored
    /\ UNCHANGED << cvars, stmts, cursor, idx, seq, newDest, mvars, args, sqlStr,
                    prepares, queries, pvars, svars >>

\* Delete, lines 148-155: the pointer check, generateDelete and parseSqlIn
DeleteStart ==
    /\ op = "Delete" /\ pc = "start"
    /\ IF kind = "pointer"
       THEN Return("ErrInsertAllow", "none") /\ UNCHANGED << sqlStr, args >>
       ELSE LET r == ParseResult(generateDelete(WhereText(where), Entity(ent)), args, dialect)
            IN IF r.panic
               THEN Return("panic", "none") /\ UNCHANGED << sqlStr, args >>
               ELSE /\ sqlStr' = r.sql /\ args' = r.args /\ pc' = "prepare"
                    /\ UNCHANGED << ret, failedAt >>
    /\ UNCHANGED << cvars, hvars, bvars, mvars, prepares, queries, pvars, svars >>

\* Delete, lines 156-159: db.PrepareContext; the statement is never closed
DeletePrepare ==
    /\ op = "Delete" /\ pc = "prepare"
    /\ prepares' = prepares + 1
    /\ \/ stmts' = stmts + 1 /\ pc' = "exec" /\ UNCHANGED << ret, failedAt >>
       \/ Return("driver", "prepare") /\ UNCHANGED stmts
    /\ UNCHANGED << cvars, tx, txStmts, cursor, bvars, mvars, args, sqlStr,
                    queries, pvars, svars >>

\* Delete, lines 160-164: stmt.QueryContext; the rows it returns are dropped
DeleteQuery ==
    /\ op = "Delete" /\ pc = "exec"
    /\ queries' = queries + 1
    /\ \/ cursor' = "open" /\ Return("ok", "none")
       \/ Return("driver", "exec") /\ UNCHANGED cursor
    /\ UNCHANGED << cvars, tx, stmts, txStmts, bvars, mvars,
                    args, sqlStr, prepares, pvars, svars >>

(***************************************************************************)
(* The query path: Query and the row marshaller.                           *)
(***************************************************************************)
\* var allows
allows == {"struct", "slice", "int", "int64", "string", "float64"}

\* the kinds of T a call of Query is made with
QueryKinds == allows \cup {"bool", "pointer"}

QueryCalls ==
    { [sql |-> << "eq" >>, args |-> << [kind |-> "int", elem |-> "", items |-> << IntVal(7) >>] >>],
      [sql |-> << "in" >>,
       args |-> << [kind |-> "slice", elem |-> "int64", items |-> ItemsOf("int64", 2)] >>],
      [sql |-> << "in" >>,
       args |-> << [kind |-> "slice", elem |-> "int", items |-> ItemsOf("int", 2)] >>] }

\* the columns of the fields of a type, in declaration order
FieldColumns(id) == [i \in 1..Len(Entity(id).fields) |-> ColumnOf(Entity(id).fields[i])]

Reverse(s) == [i \in 1..Len(s) |-> s[Len(s) + 1 - i]]

\* the column lists a result set may have: every field's column, in either
\* order; some of them; and one more column that is no field's
ColumnChoices(k, id) ==
    IF k \in {"struct", "slice"}
    THEN { FieldColumns(id), Reverse(FieldColumns(id)), Tail(FieldColumns(id)),
           FieldColumns(id) \o << << "e", "x", "t", "r", "a" >> >> }
    ELSE { << << "c", "o", "u", "n", "t" >> >>, << << "c", "o", "u", "n", "t" >>, << "e", "x", "t", "r", "a" >> >> }

InitQuery ==
    /\ op = "Query"
    /\ dialect \in Dialects
    /\ kind \in QueryKinds
    /\ ent \in (IF kind \in {"struct", "slice"} THEN {"Tag", "User"} ELSE {"Tag"})
    /\ \E c \in QueryCalls : sqlIn = c.sql /\ args = c.args
    /\ dest = << >> /\ where = "empty"
    /\ columns \in ColumnChoices(kind, ent)
    /\ resRows \in SeqsUpTo(1..MaxSample, MaxRows)
    /\ FreshCall

\* the cell of column c in a result row of sample n: a text for the column of
\* a string field, else a number
CellOf(id, n, c) ==
    IF \E i \in 1..Len(Entity(id).fields) :
          ColumnOf(Entity(id).fields[i]) = c /\ Entity(id).fields[i].kind = "string"
    THEN StrVal(c \o FormatNat(n))
    ELSE IntVal(10 * n + Len(c))

\* fieldsMap: the last field whose column is c, 0 when there is none
FieldsMap(id, c) ==
    LET S == { i \in 1..Len(Entity(id).fields) : ColumnOf(Entity(id).fields[i]) = c }
    IN IF S = {} THEN 0 ELSE CHOOSE i \in S : \A j \in S : j <= i

\* unmarshalStruct, lines 185-192 (unmarshalSlice, lines 227-234): one
\* receiver for every column that is some field's, in column order
RECURSIVE BindLoop(_, _, _)
BindLoop(id, cols, i) ==
    IF i > Len(cols) THEN [fieldNames |-> << >>, values |-> << >>]
    ELSE LET rest     == BindLoop(id, cols, i + 1)
             curField == FieldsMap(id, cols[i])
         IN IF curField # 0
            THEN [fieldNames |-> << curField >> \o rest.fieldNames,
                  values     |-> << ZeroValue(Entity(id).fields[curField].kind) >> \o rest.values]
            ELSE rest

\* rows.Scan(values...) on the current row: database/sql refuses a receiver
\* list whose length is not the number of columns, and otherwise assigns
\* column i to receiver i
ScanFits(n) == n = Len(columns)

ScannedRow(n) == [i \in 1..Len(columns) |-> CellOf(ent, n, columns[i])]

\* lines 199-202 (243-246): every bound field is set from its receiver
RECURSIVE SetFields(_, _, _, _)
SetFields(st, names, vals, i) ==
    IF i > Len(names) THEN st
    ELSE SetFields([st EXCEPT ![names[i]] = vals[i]], names, vals, i + 1)

\* an append that stores a reference to the one element the loop reuses,
\* which reflect.Append of the element's value does not
AppendElemShared(sl, elem) == [i \in 1..(Len(sl) + 1) |-> elem]

\* lines 247-248: the element is appended by value
AppendElem(sl, elem) == Append(sl, elem)

\* part_000 Query defers rows.Close() once the query has succeeded; pg.go
\* never closes the rows
AtReturn(c) == IF dialect = "dollar" THEN "closed" ELSE c

\* Query, line 22 (pg.go line 19): parseSqlIn
QueryParse ==
    /\ op = "Query" /\ pc = "start"
    /\ LET r == ParseResult(SqlText(sqlIn, dialect), args, dialect)
       IN IF r.panic
          THEN Return("panic", "none") /\ UNCHANGED << sqlStr, args >>
          ELSE /\ sqlStr' = r.sql /\ args' = r.args /\ pc' = "prepare"
               /\ UNCHANGED << ret, failedAt >>
    /\ UNCHANGED << cvars, hvars, bvars, mvars, prepares, queries, pvars, svars >>

\* Query, lines 24-27: db.PrepareContext; the statement is never closed
QueryPrepare ==
    /\ op = "Query" /\ pc = "prepare"
    /\ prepares' = prepares + 1
    /\ \/ stmts' = stmts + 1 /\ pc' = "exec" /\ UNCHANGED << ret, failedAt >>
       \/ Return("driver", "prepare") /\ UNCHANGED stmts
    /\ UNCHANGED << cvars, tx, txStmts, cursor, bvars, mvars, args, sqlStr,
                    queries, pvars, svars >>

\* Query, lines 28-36: stmt.QueryContext
QueryExec ==
    /\ op = "Query" /\ pc = "exec"
    /\ queries' = queries + 1
    /\ \/ cursor' = "open" /\ pc' = "check" /\ UNCHANGED << ret, failedAt >>
       \/ Return("driver", "exec") /\ UNCHANGED cursor
    /\ UNCHANGED << cvars, tx, stmts, txStmts, bvars, mvars, args, sqlStr,
                    prepares, pvars, svars >>

\* Query, lines 37-47: the allow list, checked once the query has run
QueryCheck ==
    /\ op = "Query" /\ pc = "check"
    /\ IF kind \notin allows
       THEN Return("ErrAllow", "none") /\ cursor' = AtReturn(cursor)
       ELSE /\ pc' = IF kind \in {"struct", "slice"} THEN "bind" ELSE "scalar"
            /\ UNCHANGED << cursor, ret, failedAt >>
    /\ UNCHANGED << cvars, tx, stmts, txStmts, bvars, mvars, args, sqlStr,
                    prepares, queries, pvars, svars >>

\* unmarshalStruct, lines 168-192, and unmarshalSlice, lines 207-234
QueryBind ==
    /\ op = "Query" /\ pc = "bind"
    /\ LET b == BindLoop(ent, columns, 1)
       IN fieldNames' = b.fieldNames /\ values' = b.values
    /\ pc' = "scan"
    /\ UNCHANGED << cvars, hvars, bvars, pos, onRow, meta, t, args, sqlStr,
                    prepares, queries, ret, failedAt, pvars, svars >>

\* part_000 unmarshalStruct, lines 193-198: rows.Next() delivers a row and
\* rows.Scan fills the receivers, or fails
StructScanRow ==
    /\ op = "Query" /\ pc = "scan" /\ kind = "struct" /\ dialect = "dollar"
    /\ pos < Len(resRows)
    /\ pos' = pos + 1 /\ onRow' = TRUE
    /\ \/ /\ ScanFits(Len(values))
          /\ values' = ScannedRow(resRows[pos + 1])
          /\ UNCHANGED << pc, cursor, ret, failedAt >>
       \/ /\ Return("driver", "scan") /\ cursor' = AtReturn(cursor)
          /\ UNCHANGED values
    /\ UNCHANGED << cvars, tx, stmts, txStmts, bvars, fieldNames, meta, t, args,
                    sqlStr, prepares, queries, pvars, svars >>

\* part_000 unmarshalStruct, line 193: rows.Next() finds no further row, which
\* closes the rows
StructScanEnd ==
    /\ op = "Query" /\ pc = "scan" /\ kind = "struct" /\ dialect = "dollar"
    /\ pos = Len(resRows)
    /\ cursor' = "closed" /\ onRow' = FALSE
    /\ pc' = "copy"
    /\ UNCHANGED << cvars, tx, stmts, txStmts, bvars, pos, fieldNames, values, meta, t,
                    args, sqlStr, prepares, queries, ret, failedAt, pvars, svars >>

\* pg.go unmarshalStruct, lines 153-157: one rows.Next(), its result ignored,
\* and one rows.Scan
StructScan_pg ==
    /\ op = "Query" /\ pc = "scan" /\ kind = "struct" /\ dialect = "qmark"
    /\ IF pos < Len(resRows)
       THEN /\ pos' = pos + 1 /\ onRow' = TRUE
            /\ \/ /\ ScanFits(Len(values))
                  /\ values' = ScannedRow(resRows[pos + 1])
                  /\ pc' = "copy"
                  /\ UNCHANGED << cursor, ret, failedAt >>
               \/ Return("driver", "scan") /\ UNCHANGED << cursor, values >>
       ELSE /\ cursor' = "closed"
            /\ Return("driver", "scan")
            /\ UNCHANGED << pos, onRow, values >>
    /\ UNCHANGED << cvars, tx, stmts, txStmts, bvars, fieldNames, meta, t, args,
                    sqlStr, prepares, queries, pvars, svars >>

\* unmarshalStruct, lines 199-203: the receivers are copied into the struct
StructCopy ==
    /\ op = "Query" /\ pc = "copy"
    /\ t' = [t EXCEPT !.st = SetFields(t.st, fieldNames, values, 1), !.set = TRUE]
    /\ Return("ok", "none") /\ cursor' = AtReturn(cursor)
    /\ UNCHANGED << cvars, tx, stmts, txStmts, bvars, pos, onRow, fieldNames, values,
                    meta, args, sqlStr, prepares, queries, pvars, svars >>

\* unmarshalSlice, lines 236-249: rows.Next() delivers a row, rows.Scan fills
\* the receivers, the element is set from them and appended
SliceScanRow ==
    /\ op = "Query" /\ pc = "scan" /\ kind = "slice"
    /\ pos < Len(resRows)
    /\ pos' = pos + 1 /\ onRow' = TRUE
    /\ \/ /\ ScanFits(Len(values))
          /\ values' = ScannedRow(resRows[pos + 1])
          /\ meta' = SetFields(meta, fieldNames, values', 1)
          /\ t' = [t EXCEPT !.sl = AppendElem(t.sl, meta'), !.set = TRUE]
          /\ UNCHANGED << pc, cursor, ret, failedAt >>
       \/ /\ Return("driver", "scan") /\ cursor' = AtReturn(cursor)
          /\ UNCHANGED << values, meta, t >>
    /\ UNCHANGED << cvars, tx, stmts, txStmts, bvars, fieldNames, args,
                    sqlStr, prepares, queries, pvars, svars >>

\* unmarshalSlice, lines 236 and 250: no further row
SliceScanEnd ==
    /\ op = "Query" /\ pc = "scan" /\ kind = "slice"
    /\ pos = Len(resRows)
    /\ cursor' = "closed" /\ onRow' = FALSE
    /\ Return("ok", "none")
    /\ UNCHANGED << cvars, tx, stmts, txStmts, bvars, pos, fieldNames, values, meta, t,
                    args, sqlStr, prepares, queries, pvars, svars >>

\* unmarshalNumOrStr: one rows.Next(), its result ignored, and rows.Scan(dest)
ScalarScan ==
    /\ op = "Query" /\ pc = "scalar"
    /\ IF pos < Len(resRows)
       THEN /\ pos' = pos + 1 /\ onRow' = TRUE
            /\ \/ /\ ScanFits(1)
                  /\ t' = [t EXCEPT !.sc = CellOf(ent, resRows[pos + 1], columns[1]),
                                    !.set = TRUE]
                  /\ Return("ok", "none")
               \/ Return("driver", "scan") /\ UNCHANGED t
            /\ cursor' = AtReturn(cursor)
       ELSE /\ cursor' = "closed"
            /\ Return("driver", "scan")
            /\ UNCHANGED << pos, onRow, t >>
    /\ UNCHANGED << cvars, tx, stmts, txStmts, bvars, fieldNames, values, meta, args,
                    sqlStr, prepares, queries, pvars, svars >>

NextWrite ==
    \/ InsertCheck \/ InsertBegin \/ InsertPrepare \/ InsertQueryRow
    \/ InsertPrepare_pg \/ InsertExec_pg \/ InsertLastId_pg \/ InsertCommit
    \/ UpdateCheck \/ UpdateBegin \/ UpdatePrepare \/ UpdateExec \/ UpdateCommit
    \/ DeleteStart \/ DeletePrepare \/ DeleteQuery

NextQuery ==
    \/ QueryParse \/ QueryPrepare \/ QueryExec \/ QueryCheck \/ QueryBind
    \/ StructScanRow \/ StructScanEnd \/ StructScan_pg \/ StructCopy
    \/ SliceScanRow \/ SliceScanEnd \/ ScalarScan

Init ==
    /\ (InitQuery \/ InitInsert \/ InitUpdate \/ InitDelete)
    /\ ParseIdle
    /\ SynthIdle

Next == NextQuery \/ NextWrite

Spec == Init /\ [][Next]_vars


(***************************************************************************)
(* Properties of the calls.                                                *)
(***************************************************************************)
\* the steps of a batch a failure of which has to roll the transaction back
RowSteps == {"prepare", "exec", "lastid"}

\* C1: when Insert or Update fails at a row after its transaction was opened
\* (prepare, execute, or reading the generated identifier), the transaction
\* has been rolled back at return, no row of the batch is applied, and Insert
\* returns no rows.
C1_AllOrNothing ==
    (pc = "done" /\ op \in {"Insert", "Update"} /\ failedAt \in RowSteps)
    => /\ tx = "rolledback"
       /\ pending = 0 /\ stored = 0
       /\ (op = "Insert" => newDest = << >>)

\* C1 for the calls that do roll back: Update, and Insert of src/pg.go
C1_RollsBack ==
    (/\ pc = "done" /\ failedAt \in RowSteps
     /\ (op = "Update" \/ (op = "Insert" /\ dialect = "qmark")))
    => tx = "rolledback" /\ pending = 0 /\ stored = 0

\* C2: at the return of Query, Insert, Update or Delete no statement is still
\* open, no cursor is still open, and no transaction is still open.
C2_AllReleased ==
    pc = "done" => /\ stmts = 0 /\ txStmts = 0
                   /\ cursor # "open"
                   /\ tx # "open"

\* C3: on a Query call with an unsupported destination kind no statement is
\* prepared and no query is sent to the driver.
C3_RejectBeforeExecuting ==
    (op = "Query" /\ kind \notin allows) => (prepares = 0 /\ queries = 0)

\* what does hold: such a call never reaches the marshaller, and returns
\* ErrAllow once the driver has prepared and run the statement
C3_RejectBeforeMarshal ==
    (op = "Query" /\ kind \notin allows)
    => /\ pos = 0 /\ ~t.set
       /\ ((pc = "done" /\ queries = 1 /\ cursor # "none") => ret = "ErrAllow")

\* the struct a result row of sample n fills: every field whose column is in
\* the result holds the row's cell, every other field its zero value
ExpectedStruct(id, cols, n) ==
    [i \in 1..Len(Entity(id).fields) |->
        IF \E j \in 1..Len(cols) : cols[j] = ColumnOf(Entity(id).fields[i])
        THEN CellOf(id, n, ColumnOf(Entity(id).fields[i]))
        ELSE ZeroValue(Entity(id).fields[i].kind)]

\* C9: a successful Query with a single-struct destination over M >= 1 rows
\* has consumed all M rows and returns the values of the last row.
C9_LastRowWins ==
    (op = "Query" /\ kind = "struct" /\ pc = "done" /\ ret = "ok" /\ Len(resRows) >= 1)
    => /\ pos = Len(resRows)
       /\ t.st = ExpectedStruct(ent, columns, resRows[Len(resRows)])

\* C9 for src/unnamed/part_000 alone
C9_DollarLastRowWins ==
    (dialect = "dollar") => C9_LastRowWins

\* C10: in a Query with a slice-of-struct destination over M rows, element i
\* of the destination holds the values of the i-th row at every moment from
\* its append on (no later scan alters it), and a successful call returns
\* exactly M elements.
C10_SliceInOrder ==
    (op = "Query" /\ kind = "slice")
    => /\ Len(t.sl) <= Len(resRows)
       /\ \A i \in 1..Len(t.sl) : t.sl[i] = ExpectedStruct(ent, columns, resRows[i])
       /\ ((pc = "done" /\ ret = "ok") => Len(t.sl) = Len(resRows))

\* two different rows were scanned and returned
C10_TwoRowsReturned ==
    /\ op = "Query" /\ kind = "slice" /\ pc = "done" /\ ret = "ok"
    /\ Len(resRows) = 2 /\ resRows[1] # resRows[2]
    /\ Len(t.sl) = 2 /\ t.sl[1] # t.sl[2]


\* the scalar destination kinds
ScalarKinds == {"int", "int64", "float64", "string"}

\* the call got as far as the marshaller: the statement was prepared and run
Marshalled == pc = "done" /\ ret # "panic" /\ failedAt \notin {"prepare", "exec"}

\* C11: a Query with a scalar destination over zero rows returns without
\* error and leaves the destination unset; over one or more rows it advances
\* the cursor once and, when it succeeds, returns the first row's value.
C11_ScalarRows ==
    (op = "Query" /\ kind \in ScalarKinds /\ Marshalled)
    => IF Len(resRows) = 0
       THEN ret = "ok" /\ ~t.set /\ t.sc = ZeroDest(ent).sc
       ELSE /\ pos = 1
            /\ (ret = "ok" => t.sc = CellOf(ent, resRows[1], columns[1]))

\* C11 for a result of one or more rows
C11_FirstRowOnly ==
    (Len(resRows) >= 1) => C11_ScalarRows

\* what a result of zero rows does: the Scan after the failed Next returns an
\* error, and the destination stays unset
C11_ZeroRowsError ==
    (op = "Query" /\ kind \in ScalarKinds /\ Marshalled /\ Len(resRows) = 0)
    => ret = "driver" /\ failedAt = "scan" /\ ~t.set


\* the identifier the database generated for row i of a batch that was
\* inserted in full: the sequence has advanced once per row
GeneratedId(i) == seq - Len(dest) + (i - 1)

\* C13: after a successful Insert of n rows the result has exactly n rows in
\* input order, and the primary-key field of result row i holds the identifier
\* generated for row i, whatever numeric kind the field is declared with;
\* every other field is as it was passed in.
C13_PrimaryKeyWritten ==
    (op = "Insert" /\ pc = "done" /\ ret = "ok")
    => /\ Len(newDest) = Len(dest)
       /\ \A i \in 1..Len(newDest) :
            /\ newDest[i].ent = dest[i].ent
            /\ \A j \in 1..Len(Entity(ent).fields) :
                 newDest[i].vals[j] =
                    IF HasPrimary(Entity(ent)) /\ j = FirstPrimary(Entity(ent))
                    THEN IntVal(GeneratedId(i))
                    ELSE dest[i].vals[j]

\* C13 for the primary-key fields declared int or int64, and the types
\* without a primary key
C13_IntAndInt64 ==
    (HasPrimary(Entity(ent)) => Entity(ent).fields[FirstPrimary(Entity(ent))].kind \in SaveKinds)
    => C13_PrimaryKeyWritten


\* the receivers are bound: the marshaller of a struct or slice-of-struct
\* destination is at, or past, its scan loop
Bound == op = "Query" /\ kind \in {"struct", "slice"} /\ pc \in {"scan", "copy"}

\* C14: in unmarshalStruct and unmarshalSlice the receiver list holds exactly
\* one receiver per result column, in column order, at every scan of a row,
\* whatever the columns of the result set are.
C14_ReceiverPerColumn ==
    Bound => /\ Len(values) = Len(columns)
             /\ Len(fieldNames) = Len(columns)
             /\ \A i \in 1..Len(fieldNames) : fieldNames[i] = FieldsMap(ent, columns[i])

\* every column of the result is the column of some field
AllColumnsMatch == \A i \in 1..Len(columns) : FieldsMap(ent, columns[i]) # 0

\* C14 for the result sets whose every column matches a field
C14_WhenAllMatch ==
    AllColumnsMatch => C14_ReceiverPerColumn

\* what a column without a field does: no row of such a result is ever
\* scanned successfully
C14_UnmatchedFails ==
    (/\ op = "Query" /\ kind \in {"struct", "slice"}
     /\ ~AllColumnsMatch /\ pos >= 1)
    => (pc = "done" /\ ret = "driver" /\ failedAt = "scan" /\ ~t.set)

=============================================================================
